---- MODULE Spec2Model ----
(***************************************************************************)
(* Model of the KluctlDeployment API type helpers (api/v1alpha1) and of    *)
(* the source-artifact indexers (controllers/kluctl_indexers.go).          *)
(*                                                                         *)
(* Scales used throughout:                                                 *)
(*   - time.Duration is a signed 64-bit count; here a duration is a count  *)
(*     of 10 s units in the signed range MinDuration..MaxDuration with the *)
(*     same wrap-around subtraction, so 30*time.Second is 3.               *)
(*   - condition messages are sequences of one-character strings and       *)
(*     MaxConditionMessageLength (20000 in the source) is scaled to 2.     *)
(*   - metav1.Condition is reduced to Type, Status, Reason and Message;    *)
(*     timestamps are not modelled.                                        *)
(***************************************************************************)
EXTENDS Integers, Sequences, FiniteSets, TLC

VARIABLES objects, last, recorded

vars == <<objects, last, recorded>>

(***************************************************************************)
(* Bounds of the model.                                                    *)
(***************************************************************************)
MaxDuration == 9
MaxMessageLength == 3
MaxGeneration == 2
NumDeployments == 2

(***************************************************************************)
(* Program constants.                                                      *)
(***************************************************************************)
MaxConditionMessageLength == 2
ThirtySeconds == 3

KluctlDeploymentKind == "KluctlDeployment"
ReadyCondition == "Ready"
HealthyCondition == "Healthy"
ProgressingReason == "Progressing"
DeployFailedReason == "DeployFailed"
ReconciliationSucceededReason == "ReconciliationSucceeded"
ConditionTrue == "True"
ConditionFalse == "False"
ConditionUnknown == "Unknown"
GitRepositoryKind == "GitRepository"
BucketKind == "Bucket"

(***************************************************************************)
(* time.Duration: signed, fixed width, wrapping.                           *)
(***************************************************************************)
MinDuration == 0 - MaxDuration - 1
Durations == MinDuration..MaxDuration
DurationModulus == 2 * (MaxDuration + 1)

\* a - b as the fixed-width signed subtraction computes it
DurationSub(a, b) == ((a - b - MinDuration) % DurationModulus) + MinDuration

\* *metav1.Duration: a nil pointer is [present |-> FALSE]
NilDuration == [present |-> FALSE, Duration |-> 0]
PtrDuration(d) == [present |-> TRUE, Duration |-> d]
OptionalDurations == {NilDuration} \cup {PtrDuration(d) : d \in Durations}

(***************************************************************************)
(* Strings of condition messages.                                          *)
(***************************************************************************)
Letters == <<"a", "b", "c">>
Ellipsis == <<".", ".", ".">>

\* the message of length n: a, b, c, a, b, ...
MessageOfLength(n) == [i \in 1..n |-> Letters[((i - 1) % 3) + 1]]
Messages == {MessageOfLength(n) : n \in 0..MaxMessageLength}

trimString(str, limit) ==
    IF Len(str) <= limit
    THEN str
    ELSE SubSeq(str, 1, limit) \o Ellipsis

(***************************************************************************)
(* Conditions.                                                             *)
(***************************************************************************)
Condition(type, status, reason, message) ==
    [Type |-> type, Status |-> status, Reason |-> reason, Message |-> message]

\* index of the first condition of the given type, 0 when there is none
FindStatusCondition(conditions, conditionType) ==
    IF \E i \in 1..Len(conditions) : conditions[i].Type = conditionType
    THEN CHOOSE i \in 1..Len(conditions) :
            /\ conditions[i].Type = conditionType
            /\ \A j \in 1..(i - 1) : conditions[j].Type # conditionType
    ELSE 0

\* apimeta.SetStatusCondition: update the first condition of that type in
\* place, or append the new condition
SetStatusCondition(conditions, newCondition) ==
    LET i == FindStatusCondition(conditions, newCondition.Type)
    IN  IF i = 0
        THEN Append(conditions, newCondition)
        ELSE [conditions EXCEPT ![i] =
                [@ EXCEPT !.Status = newCondition.Status,
                          !.Reason = newCondition.Reason,
                          !.Message = newCondition.Message]]

(***************************************************************************)
(* KluctlDeployment helpers (api/v1alpha1).                                *)
(***************************************************************************)
GetStatusConditions(in) == in.Status.Conditions

KluctlDeploymentProgressing(k, message) ==
    LET newCondition == Condition(ReadyCondition, ConditionUnknown, ProgressingReason,
                                  trimString(message, MaxConditionMessageLength))
    IN  [k EXCEPT !.Status.Conditions =
            SetStatusCondition(GetStatusConditions(k), newCondition)]

\* a helper that appends without looking for an existing condition
HealthinessAppending(k, status, reason, message) ==
    [k EXCEPT !.Status.Conditions =
        Append(@, Condition(HealthyCondition, status, reason,
                            trimString(message, MaxConditionMessageLength)))]

SetKluctlDeploymentHealthiness(k, status, reason, message) ==
    LET newCondition == Condition(HealthyCondition, status, reason,
                                  trimString(message, MaxConditionMessageLength))
    IN  [k EXCEPT !.Status.Conditions =
            SetStatusCondition(GetStatusConditions(k), newCondition)]

\* a readiness update that also moves LastDeployedRevision
ReadinessAlsoDeployed(k, status, reason, message, revision) ==
    LET newCondition == Condition(ReadyCondition, status, reason,
                                  trimString(message, MaxConditionMessageLength))
    IN  [k EXCEPT !.Status.Conditions =
                      SetStatusCondition(GetStatusConditions(k), newCondition),
                  !.Status.ObservedGeneration = k.Generation,
                  !.Status.LastAttemptedRevision = revision,
                  !.Status.LastDeployedRevision = revision]

SetKluctlDeploymentReadiness(k, status, reason, message, revision) ==
    LET newCondition == Condition(ReadyCondition, status, reason,
                                  trimString(message, MaxConditionMessageLength))
    IN  [k EXCEPT !.Status.Conditions =
                      SetStatusCondition(GetStatusConditions(k), newCondition),
                  !.Status.ObservedGeneration = k.Generation,
                  !.Status.LastAttemptedRevision = revision]

\* a failed attempt that records the revision only when it is not empty
NotReadyKeepingRevision(k, revision, reason, message) ==
    LET k1 == SetKluctlDeploymentReadiness(k, ConditionFalse, reason,
                  trimString(message, MaxConditionMessageLength),
                  k.Status.LastAttemptedRevision)
    IN  IF revision # ""
        THEN [k1 EXCEPT !.Status.LastAttemptedRevision = revision]
        ELSE k1

KluctlDeploymentNotReady(k, revision, reason, message) ==
    LET k1 == SetKluctlDeploymentReadiness(k, ConditionFalse, reason,
                  trimString(message, MaxConditionMessageLength), revision)
    IN  IF revision # ""
        THEN [k1 EXCEPT !.Status.LastAttemptedRevision = revision]
        ELSE k1

\* the three-way maximum in place of the override
GetTimeoutMaximum(in) ==
    LET base == DurationSub(in.Spec.Interval, ThirtySeconds)
        over == IF in.Spec.Timeout.present /\ in.Spec.Timeout.Duration > base
                THEN in.Spec.Timeout.Duration
                ELSE base
    IN  IF over < ThirtySeconds THEN ThirtySeconds ELSE over

GetTimeout(in) ==
    LET duration == IF in.Spec.Timeout.present
                    THEN in.Spec.Timeout.Duration
                    ELSE DurationSub(in.Spec.Interval, ThirtySeconds)
    IN  IF duration < ThirtySeconds THEN ThirtySeconds ELSE duration

GetRequeueAfter(in) == in.Spec.Interval

\* a zero retry interval taken for an unset one
GetRetryIntervalZeroUnset(in) ==
    IF in.Spec.RetryInterval.present /\ in.Spec.RetryInterval.Duration # 0
    THEN in.Spec.RetryInterval.Duration
    ELSE GetRequeueAfter(in)

GetRetryInterval(in) ==
    IF in.Spec.RetryInterval.present
    THEN in.Spec.RetryInterval.Duration
    ELSE GetRequeueAfter(in)

(***************************************************************************)
(* Indexers (controllers/kluctl_indexers.go).                              *)
(***************************************************************************)
\* client.ObjectKeyFromObject(obj).String() and fmt.Sprintf("%s/%s", ...)
NamespacedKey(namespace, name) == namespace \o "/" \o name

\* an index that ignores Spec.SourceRef.Namespace
indexByOwnNamespace(kind, o) ==
    IF o.Type # KluctlDeploymentKind
    THEN <<>>
    ELSE IF o.Spec.SourceRef.Kind = kind
         THEN <<NamespacedKey(o.Namespace, o.Spec.SourceRef.Name)>>
         ELSE <<>>

\* indexBy(kind)(o): the index values of object o, <<>> for nil
indexBy(kind, o) ==
    IF o.Type # KluctlDeploymentKind
    THEN <<>>
    ELSE IF o.Spec.SourceRef.Kind = kind
         THEN LET namespace == IF o.Spec.SourceRef.Namespace # ""
                               THEN o.Spec.SourceRef.Namespace
                               ELSE o.Namespace
              IN  <<NamespacedKey(namespace, o.Spec.SourceRef.Name)>>
         ELSE <<>>

\* the field indexes registered with the cache: index key -> indexed kind
GitRepositoryIndexKey == ".metadata.gitRepository"
BucketIndexKey == ".metadata.bucket"
IndexKeys == {GitRepositoryIndexKey, BucketIndexKey}
IndexedKind(indexKey) ==
    IF indexKey = GitRepositoryIndexKey THEN GitRepositoryKind ELSE BucketKind

\* whether the cache holds o under index indexKey with value key
IndexMatches(indexKey, key, o) ==
    \E j \in 1..Len(indexBy(IndexedKind(indexKey), o)) :
        indexBy(IndexedKind(indexKey), o)[j] = key

\* r.List(ctx, list, client.MatchingFields{indexKey: key}): the positions in
\* objs of the KluctlDeployments whose index value under indexKey is key
RECURSIVE ListFrom(_, _, _, _)
ListFrom(objs, i, indexKey, key) ==
    IF i > Len(objs)
    THEN <<>>
    ELSE IF objs[i].Type = KluctlDeploymentKind /\ IndexMatches(indexKey, key, objs[i])
         THEN <<i>> \o ListFrom(objs, i + 1, indexKey, key)
         ELSE ListFrom(objs, i + 1, indexKey, key)

List(objs, indexKey, key) == ListFrom(objs, 1, indexKey, key)

Request(d) == [Namespace |-> d.Namespace, Name |-> d.Name]

\* a handler that compares with the last deployed revision
requestsForDeployedRevisionChangeOf(objs, indexKey, obj, listFails) ==
    IF ~obj.conforms
    THEN [panic |-> TRUE, reqs |-> <<>>]
    ELSE IF ~obj.Artifact.present
    THEN [panic |-> FALSE, reqs |-> <<>>]
    ELSE IF listFails
    THEN [panic |-> FALSE, reqs |-> <<>>]
    ELSE LET items == List(objs, indexKey, NamespacedKey(obj.Namespace, obj.Name))
             RECURSIVE Loop(_)
             Loop(n) ==
                IF n > Len(items)
                THEN <<>>
                ELSE IF obj.Artifact.Revision = objs[items[n]].Status.LastDeployedRevision
                     THEN Loop(n + 1)
                     ELSE <<Request(objs[items[n]])>> \o Loop(n + 1)
         IN  [panic |-> FALSE, reqs |-> Loop(1)]

\* requestsForRevisionChangeOf(indexKey)(obj); listFails is the outcome of
\* r.List
requestsForRevisionChangeOf(objs, indexKey, obj, listFails) ==
    IF ~obj.conforms
    THEN [panic |-> TRUE, reqs |-> <<>>]
    ELSE IF ~obj.Artifact.present
    THEN [panic |-> FALSE, reqs |-> <<>>]
    ELSE IF listFails
    THEN [panic |-> FALSE, reqs |-> <<>>]
    ELSE LET items == List(objs, indexKey, NamespacedKey(obj.Namespace, obj.Name))
             RECURSIVE Loop(_)
             Loop(n) ==
                IF n > Len(items)
                THEN <<>>
                ELSE IF obj.Artifact.Revision = objs[items[n]].Status.LastAttemptedRevision
                     THEN Loop(n + 1)
                     ELSE <<Request(objs[items[n]])>> \o Loop(n + 1)
         IN  [panic |-> FALSE, reqs |-> Loop(1)]

(***************************************************************************)
(* State.                                                                  *)
(*   objects   the objects of the cluster, as the reconciler and the cache *)
(*             see them: a sequence of records                             *)
(*   last      the most recent call: its name, arguments and result        *)
(*   recorded  per object, the revision given to its most recent readiness *)
(*             update (history variable)                                   *)
(***************************************************************************)
Revisions == {"", "main/1", "main/2"}
Statuses == {ConditionTrue, ConditionFalse}
Reasons == {DeployFailedReason, ReconciliationSucceededReason}

SourceRef(kind, namespace, name) ==
    [Kind |-> kind, Namespace |-> namespace, Name |-> name]

\* a freshly created object: empty status
NewObject(type, namespace, name, generation, interval, retryInterval, timeout, sourceRef, lastDeployedRevision) ==
    [Type |-> type,
     Namespace |-> namespace,
     Name |-> name,
     Generation |-> generation,
     Spec |-> [Interval |-> interval,
               RetryInterval |-> retryInterval,
               Timeout |-> timeout,
               SourceRef |-> sourceRef],
     Status |-> [ObservedGeneration |-> 0,
                 Conditions |-> <<>>,
                 LastDeployedRevision |-> lastDeployedRevision,
                 LastAttemptedRevision |-> ""]]

NilArtifact == [present |-> FALSE, Revision |-> ""]
Artifact(revision) == [present |-> TRUE, Revision |-> revision]
Artifacts == {NilArtifact} \cup {Artifact(r) : r \in Revisions}

\* a watched object: conforms says whether it has a GetArtifact method
SourceObject(conforms, namespace, name, artifact) ==
    [conforms |-> conforms, Namespace |-> namespace, Name |-> name,
     Artifact |-> artifact]

NoCall ==
    [op |-> "none", obj |-> 0, status |-> "", reason |-> "", message |-> <<>>,
     revision |-> "", kind |-> "", indexKey |-> "",
     source |-> SourceObject(TRUE, "", "", NilArtifact), listFails |-> FALSE,
     duration |-> 0, keys |-> <<>>, reqs |-> <<>>, panic |-> FALSE]

NotRecorded == [known |-> FALSE, revision |-> ""]
Recorded(revision) == [known |-> TRUE, revision |-> revision]

(***************************************************************************)
(* Calls of the helpers. A helper that takes its KluctlDeployment by value *)
(* returns the updated copy, which the caller keeps.                       *)
(***************************************************************************)
GetTimeoutCall(i) ==
    /\ last' = [NoCall EXCEPT !.op = "GetTimeout", !.obj = i,
                              !.duration = GetTimeout(objects[i])]
    /\ UNCHANGED <<objects, recorded>>

GetRetryIntervalCall(i) ==
    /\ last' = [NoCall EXCEPT !.op = "GetRetryInterval", !.obj = i,
                              !.duration = GetRetryInterval(objects[i])]
    /\ UNCHANGED <<objects, recorded>>

GetRequeueAfterCall(i) ==
    /\ last' = [NoCall EXCEPT !.op = "GetRequeueAfter", !.obj = i,
                              !.duration = GetRequeueAfter(objects[i])]
    /\ UNCHANGED <<objects, recorded>>

ProgressingCall(i, message) ==
    /\ objects' = [objects EXCEPT ![i] = KluctlDeploymentProgressing(@, message)]
    /\ last' = [NoCall EXCEPT !.op = "KluctlDeploymentProgressing", !.obj = i,
                              !.status = ConditionUnknown,
                              !.reason = ProgressingReason,
                              !.message = message]
    /\ UNCHANGED recorded

HealthinessCall(i, status, reason, message) ==
    /\ objects' = [objects EXCEPT ![i] =
                      SetKluctlDeploymentHealthiness(@, status, reason, message)]
    /\ last' = [NoCall EXCEPT !.op = "SetKluctlDeploymentHealthiness", !.obj = i,
                              !.status = status, !.reason = reason,
                              !.message = message]
    /\ UNCHANGED recorded

ReadinessCall(i, status, reason, message, revision) ==
    /\ objects' = [objects EXCEPT ![i] =
                      SetKluctlDeploymentReadiness(@, status, reason, message, revision)]
    /\ last' = [NoCall EXCEPT !.op = "SetKluctlDeploymentReadiness", !.obj = i,
                              !.status = status, !.reason = reason,
                              !.message = message, !.revision = revision]
    /\ recorded' = [recorded EXCEPT ![i] = Recorded(revision)]

NotReadyCall(i, revision, reason, message) ==
    /\ objects' = [objects EXCEPT ![i] =
                      KluctlDeploymentNotReady(@, revision, reason, message)]
    /\ last' = [NoCall EXCEPT !.op = "KluctlDeploymentNotReady", !.obj = i,
                              !.status = ConditionFalse, !.reason = reason,
                              !.message = message, !.revision = revision]
    /\ recorded' = [recorded EXCEPT ![i] = Recorded(revision)]

\* the cache computes the index values of object i for the index of a kind
IndexCall(kind, i) ==
    /\ last' = [NoCall EXCEPT !.op = "indexBy", !.obj = i, !.kind = kind,
                              !.keys = indexBy(kind, objects[i])]
    /\ UNCHANGED <<objects, recorded>>

\* an artifact-changed event for a watched source object reaches the handler
\* registered with indexKey
EventCall(indexKey, source, listFails) ==
    /\ LET r == requestsForRevisionChangeOf(objects, indexKey, source, listFails)
       IN  last' = [NoCall EXCEPT !.op = "requestsForRevisionChangeOf",
                                  !.indexKey = indexKey, !.source = source,
                                  !.listFails = listFails,
                                  !.reqs = r.reqs, !.panic = r.panic]
    /\ UNCHANGED <<objects, recorded>>

(***************************************************************************)
(* SpecDurations: one KluctlDeployment of any interval, retry interval and *)
(* timeout; the duration getters are called on it.                         *)
(***************************************************************************)
DefaultSourceRef == SourceRef(GitRepositoryKind, "", "s")

InitDurations ==
    /\ \E interval \in Durations, retryInterval \in OptionalDurations,
          timeout \in OptionalDurations :
          objects = <<NewObject(KluctlDeploymentKind, "a", "d1", 1, interval,
                                retryInterval, timeout, DefaultSourceRef, "")>>
    /\ last = NoCall
    /\ recorded = <<NotRecorded>>

NextDurations ==
    \/ GetTimeoutCall(1)
    \/ GetRetryIntervalCall(1)
    \/ GetRequeueAfterCall(1)

SpecDurations == InitDurations /\ [][NextDurations]_vars

(***************************************************************************)
(* SpecConditions: one KluctlDeployment; the condition helpers are called  *)
(* on it in any order with any arguments.                                  *)
(***************************************************************************)
InitConditions ==
    /\ \E generation \in 1..MaxGeneration, lastDeployedRevision \in Revisions :
          objects = <<NewObject(KluctlDeploymentKind, "a", "d1", generation, 6,
                                NilDuration, NilDuration, DefaultSourceRef,
                                lastDeployedRevision)>>
    /\ last = NoCall
    /\ recorded = <<NotRecorded>>

NextConditions ==
    \/ \E message \in Messages : ProgressingCall(1, message)
    \/ \E status \in Statuses, reason \in Reasons, message \in Messages :
          HealthinessCall(1, status, reason, message)
    \/ \E status \in Statuses, reason \in Reasons, message \in Messages,
          revision \in Revisions :
          ReadinessCall(1, status, reason, message, revision)
    \/ \E revision \in Revisions, reason \in Reasons, message \in Messages :
          NotReadyCall(1, revision, reason, message)

SpecConditions == InitConditions /\ [][NextConditions]_vars

(***************************************************************************)
(* SpecRevisions: NumDeployments KluctlDeployments in namespace "a", each  *)
(* referring to GitRepository s or t of its own namespace. Readiness       *)
(* updates record revisions; artifact-changed events for the GitRepository *)
(* objects reach the handler.                                              *)
(***************************************************************************)
RECURSIVE DeploymentName(_)
DeploymentName(i) == IF i = 0 THEN "d" ELSE DeploymentName(i - 1) \o "x"

SourceNames == {"s", "t"}

InitRevisions ==
    /\ \E names \in [1..NumDeployments -> SourceNames] :
          objects = [i \in 1..NumDeployments |->
                        NewObject(KluctlDeploymentKind, "a", DeploymentName(i), 1, 6,
                                  NilDuration, NilDuration,
                                  SourceRef(GitRepositoryKind, "", names[i]), "")]
    /\ last = NoCall
    /\ recorded = [i \in 1..NumDeployments |-> NotRecorded]

NextRevisions ==
    \/ \E i \in DOMAIN objects, revision \in Revisions :
          ReadinessCall(i, ConditionTrue, ReconciliationSucceededReason, <<>>, revision)
    \/ \E i \in DOMAIN objects, revision \in Revisions :
          NotReadyCall(i, revision, DeployFailedReason, <<>>)
    \/ \E conforms \in BOOLEAN, name \in SourceNames, artifact \in Artifacts,
          listFails \in BOOLEAN :
          EventCall(GitRepositoryIndexKey,
                    SourceObject(conforms, "a", name, artifact), listFails)

SpecRevisions == InitRevisions /\ [][NextRevisions]_vars

(***************************************************************************)
(* SpecIndex: NumDeployments KluctlDeployments with any source reference,  *)
(* and one object of another type that also carries a source reference.    *)
(* The cache indexes the objects; events for source objects of either kind *)
(* in either namespace reach the handler of that kind. Source objects have *)
(* valid names (no "/"); the names in a source reference are not           *)
(* validated.                                                              *)
(***************************************************************************)
Namespaces == {"a", "b"}
SourceKinds == {GitRepositoryKind, BucketKind}
SourceRefs ==
    {SourceRef(kind, namespace, name) :
        kind \in SourceKinds, namespace \in {"", "b"}, name \in {"s", "t", "a/s"}}

InitIndex ==
    /\ \E namespaces \in [1..NumDeployments -> Namespaces],
          refs \in [1..NumDeployments -> SourceRefs] :
          objects = [i \in 1..NumDeployments |->
                        NewObject(KluctlDeploymentKind, namespaces[i], DeploymentName(i),
                                  1, 6, NilDuration, NilDuration, refs[i], "")]
                    \o <<NewObject("Kustomization", "a", "k", 1, 6, NilDuration,
                                   NilDuration, SourceRef(GitRepositoryKind, "", "s"),
                                   "")>>
    /\ last = NoCall
    /\ recorded = [i \in 1..(NumDeployments + 1) |-> NotRecorded]

NextIndex ==
    \/ \E kind \in SourceKinds, i \in DOMAIN objects : IndexCall(kind, i)
    \/ \E indexKey \in IndexKeys, namespace \in Namespaces, name \in SourceNames :
          EventCall(indexKey,
                    SourceObject(TRUE, namespace, name, Artifact("main/1")), FALSE)

SpecIndex == InitIndex /\ [][NextIndex]_vars

(***************************************************************************)
(* Properties of the duration getters (SpecDurations).                     *)
(***************************************************************************)
Max(a, b) == IF a >= b THEN a ELSE b

\* C2 as stated: GetTimeout returns the maximum of Spec.Interval - 30s, the
\* Spec.Timeout override when set, and the 30s floor.
C2_TimeoutIsMaximumOfThree ==
    last.op = "GetTimeout" =>
        LET in == objects[last.obj]
            base == Max(DurationSub(in.Spec.Interval, ThirtySeconds), ThirtySeconds)
        IN  last.duration = IF in.Spec.Timeout.present
                            THEN Max(base, in.Spec.Timeout.Duration)
                            ELSE base

\* C2 amended: when Spec.Timeout is set GetTimeout returns max(Spec.Timeout,
\* 30s), whatever the interval; when it is not set it returns
\* max(Spec.Interval - 30s, 30s).
C2_TimeoutOverridesInterval ==
    last.op = "GetTimeout" =>
        LET in == objects[last.obj]
        IN  last.duration = IF in.Spec.Timeout.present
                            THEN Max(in.Spec.Timeout.Duration, ThirtySeconds)
                            ELSE Max(DurationSub(in.Spec.Interval, ThirtySeconds),
                                     ThirtySeconds)

\* an override above the floor and below Spec.Interval - 30s was returned
C2_OverrideBelowIntervalReturned ==
    /\ last.op = "GetTimeout"
    /\ objects[last.obj].Spec.Timeout.present
    /\ objects[last.obj].Spec.Timeout.Duration > ThirtySeconds
    /\ objects[last.obj].Spec.Interval - ThirtySeconds
          > objects[last.obj].Spec.Timeout.Duration
    /\ last.duration = objects[last.obj].Spec.Timeout.Duration

\* C6: GetRetryInterval returns Spec.RetryInterval when it is set, zero
\* included, and otherwise Spec.Interval, the value GetRequeueAfter returns.
C6_RetryIntervalOrInterval ==
    last.op = "GetRetryInterval" =>
        LET in == objects[last.obj]
        IN  IF in.Spec.RetryInterval.present
            THEN last.duration = in.Spec.RetryInterval.Duration
            ELSE /\ last.duration = in.Spec.Interval
                 /\ last.duration = GetRequeueAfter(in)

\* a retry interval set to zero was returned for a non-zero interval
C6_ZeroRetryIntervalReturned ==
    /\ last.op = "GetRetryInterval"
    /\ objects[last.obj].Spec.RetryInterval = PtrDuration(0)
    /\ objects[last.obj].Spec.Interval > 0
    /\ last.duration = 0

(***************************************************************************)
(* Properties of the condition helpers (SpecConditions).                   *)
(***************************************************************************)
ConditionOps ==
    {"KluctlDeploymentProgressing", "SetKluctlDeploymentHealthiness",
     "SetKluctlDeploymentReadiness", "KluctlDeploymentNotReady"}

\* the condition type a helper sets
TypeSetBy(op) ==
    IF op = "SetKluctlDeploymentHealthiness" THEN HealthyCondition ELSE ReadyCondition

NoDuplicateTypes(conditions) ==
    \A i, j \in 1..Len(conditions) :
        conditions[i].Type = conditions[j].Type => i = j

PositionsOf(conditions, type) ==
    {i \in 1..Len(conditions) : conditions[i].Type = type}

\* the step of a condition helper is an upsert by type
UpsertStep ==
    last'.op \in ConditionOps =>
        LET old == objects[last'.obj].Status.Conditions
            new == objects'[last'.obj].Status.Conditions
            type == TypeSetBy(last'.op)
            Set(c) == /\ c.Type = type
                      /\ c.Status = last'.status
                      /\ c.Reason = last'.reason
        IN  IF PositionsOf(old, type) = {}
            THEN /\ Len(new) = Len(old) + 1
                 /\ SubSeq(new, 1, Len(old)) = old
                 /\ Set(new[Len(new)])
            ELSE /\ Len(new) = Len(old)
                 /\ \A i \in 1..Len(old) :
                        IF old[i].Type = type THEN Set(new[i]) ELSE new[i] = old[i]

C4_ProgressingResetsConditions ==
    last.op = "KluctlDeploymentProgressing" =>
        LET conditions == objects[last.obj].Status.Conditions
        IN  /\ Len(conditions) = 1
            /\ conditions[1].Type = ReadyCondition
            /\ conditions[1].Status = ConditionUnknown
            /\ conditions[1].Reason = ProgressingReason

\* C5: the message a condition helper stores is no longer than
\* MaxConditionMessageLength, and a message within that length is stored
\* unchanged.
C5_StoredMessageWithinLimit ==
    last.op \in ConditionOps =>
        \A i \in PositionsOf(objects[last.obj].Status.Conditions, TypeSetBy(last.op)) :
            LET stored == objects[last.obj].Status.Conditions[i].Message
            IN  /\ Len(stored) <= MaxConditionMessageLength
                /\ Len(last.message) <= MaxConditionMessageLength
                      => stored = last.message

ReadinessStep ==
    last'.op = "SetKluctlDeploymentReadiness" =>
        LET k == objects'[last'.obj]
        IN  /\ \E i \in 1..Len(k.Status.Conditions) :
                  /\ k.Status.Conditions[i].Type = ReadyCondition
                  /\ k.Status.Conditions[i].Status = last'.status
                  /\ k.Status.Conditions[i].Reason = last'.reason
            /\ k.Status.ObservedGeneration = k.Generation
            /\ k.Status.LastAttemptedRevision = last'.revision
            /\ k.Status.LastDeployedRevision
                  = objects[last'.obj].Status.LastDeployedRevision

\* C7: SetKluctlDeploymentReadiness leaves a Ready condition with the given
\* status and reason, ObservedGeneration equal to Generation and
\* LastAttemptedRevision equal to the given revision, and does not change
\* LastDeployedRevision.
C7_ReadinessEffect == [][ReadinessStep]_vars

\* a readiness update recorded a revision other than the deployed one
C7_ReadinessRecorded ==
    /\ last.op = "SetKluctlDeploymentReadiness"
    /\ objects[last.obj].Status.LastDeployedRevision = "main/1"
    /\ objects[last.obj].Status.LastAttemptedRevision = "main/2"
    /\ objects[last.obj].Generation = MaxGeneration
    /\ objects[last.obj].Status.ObservedGeneration = MaxGeneration
    /\ \E i \in 1..Len(objects[last.obj].Status.Conditions) :
          /\ objects[last.obj].Status.Conditions[i].Type = ReadyCondition
          /\ objects[last.obj].Status.Conditions[i].Status = ConditionTrue

(***************************************************************************)
(* Properties of the event handler (SpecRevisions, SpecIndex).             *)
(***************************************************************************)
\* how many of the requests name object i
RequestsFor(reqs, i) ==
    Cardinality({n \in 1..Len(reqs) : reqs[n] = Request(objects[i])})

\* the handler ran on a source object that carries an artifact
HandledArtifact ==
    /\ last.op = "requestsForRevisionChangeOf"
    /\ ~last.panic
    /\ last.source.Artifact.present

\* the positions the lookup of the last event returns
LookupResult ==
    LET items == List(objects, last.indexKey,
                      NamespacedKey(last.source.Namespace, last.source.Name))
    IN  {items[n] : n \in 1..Len(items)}

\* C1: for a source object whose artifact has revision R, the handler returns
\* exactly one request for each KluctlDeployment of the lookup result whose
\* LastAttemptedRevision differs from R, none for one whose
\* LastAttemptedRevision equals R, and no other request.
C1_OneRequestPerChangedDeployment ==
    (HandledArtifact /\ ~last.listFails) =>
        /\ \A i \in DOMAIN objects :
              RequestsFor(last.reqs, i) =
                  IF /\ i \in LookupResult
                     /\ objects[i].Status.LastAttemptedRevision
                           # last.source.Artifact.Revision
                  THEN 1
                  ELSE 0
        /\ \A n \in 1..Len(last.reqs) :
              \E i \in LookupResult : last.reqs[n] = Request(objects[i])

\* of two deployments of the same source, the one that attempted the
\* artifact's revision got no request and the other got one
C1_OneRequestedOneSuppressed ==
    /\ HandledArtifact
    /\ ~last.listFails
    /\ Len(last.reqs) = 1
    /\ \E i, j \in LookupResult :
          /\ objects[i].Status.LastAttemptedRevision = last.source.Artifact.Revision
          /\ objects[j].Status.LastAttemptedRevision # last.source.Artifact.Revision
          /\ last.reqs[1] = Request(objects[j])

\* the source a KluctlDeployment refers to
ResolvedNamespace(o) ==
    IF o.Spec.SourceRef.Namespace = "" THEN o.Namespace ELSE o.Spec.SourceRef.Namespace

\* object i is a KluctlDeployment whose source is the object of the last event
IsSourceOf(i) ==
    /\ objects[i].Type = KluctlDeploymentKind
    /\ objects[i].Spec.SourceRef.Kind = IndexedKind(last.indexKey)
    /\ ResolvedNamespace(objects[i]) = last.source.Namespace
    /\ objects[i].Spec.SourceRef.Name = last.source.Name

\* C8 as stated: once the most recent readiness update of a deployment
\* recorded revision R, an event of its source carrying R yields no request
\* for it, and an event carrying another revision always yields one.
C8_RequestIffRevisionDiffers ==
    HandledArtifact =>
        \A i \in DOMAIN objects :
            (recorded[i].known /\ IsSourceOf(i)) =>
                (RequestsFor(last.reqs, i) > 0
                    <=> last.source.Artifact.Revision # recorded[i].revision)

\* C8 amended: an event carrying the recorded revision never yields a
\* request; an event carrying another revision yields one whenever the
\* handler's lookup succeeds.
C8_RequestIffRevisionDiffersAndListed ==
    HandledArtifact =>
        \A i \in DOMAIN objects :
            (recorded[i].known /\ IsSourceOf(i)) =>
                (RequestsFor(last.reqs, i) > 0
                    <=> (/\ last.source.Artifact.Revision # recorded[i].revision
                         /\ ~last.listFails))

\* an event carried the revision a deployment recorded and yielded no request
\* for it, while a deployment that recorded another revision got one
C8_SuppressedAfterRecording ==
    /\ HandledArtifact
    /\ ~last.listFails
    /\ last.source.Artifact.Revision # ""
    /\ \E i, j \in DOMAIN objects :
          /\ IsSourceOf(i) /\ recorded[i] = Recorded(last.source.Artifact.Revision)
          /\ RequestsFor(last.reqs, i) = 0
          /\ IsSourceOf(j) /\ recorded[j].known
          /\ recorded[j].revision # last.source.Artifact.Revision
          /\ RequestsFor(last.reqs, j) = 1

\* C9: indexBy(kind) yields for a KluctlDeployment whose Spec.SourceRef.Kind is
\* kind the one key "<namespace>/<name>", the namespace being
\* Spec.SourceRef.Namespace or else the deployment's own, and no key for
\* another kind or another type of object; an event for a source object
\* (namespace, name) of that kind reaches exactly the deployments whose
\* source reference resolves to it.
C9_IndexKeysAgreeWithLookupKeys ==
    /\ last.op = "indexBy" =>
          LET o == objects[last.obj]
          IN  IF o.Type = KluctlDeploymentKind /\ o.Spec.SourceRef.Kind = last.kind
              THEN /\ Len(last.keys) = 1
                   /\ last.keys[1] = ResolvedNamespace(o) \o "/" \o o.Spec.SourceRef.Name
              ELSE last.keys = <<>>
    /\ (HandledArtifact /\ ~last.listFails) =>
          /\ LookupResult = {i \in DOMAIN objects : IsSourceOf(i)}
          /\ \A i \in DOMAIN objects :
                (objects[i].Status.LastAttemptedRevision # last.source.Artifact.Revision)
                    => (RequestsFor(last.reqs, i) > 0 <=> IsSourceOf(i))

\* an event for GitRepository b/s reached the deployment of namespace a that
\* refers to it across namespaces, and not the deployment of namespace b
\* that refers to a Bucket of the same name
C9_CrossNamespaceLookup ==
    /\ HandledArtifact
    /\ last.indexKey = GitRepositoryIndexKey
    /\ last.source.Namespace = "b"
    /\ last.source.Name = "s"
    /\ objects[1].Namespace = "a"
    /\ objects[1].Spec.SourceRef = SourceRef(GitRepositoryKind, "b", "s")
    /\ objects[2].Namespace = "b"
    /\ objects[2].Spec.SourceRef = SourceRef(BucketKind, "", "s")
    /\ last.reqs = <<Request(objects[1])>>

====
